---- MODULE Spec2Model ----
(***************************************************************************)
(* Grouped (aggregate) sensors of powercalc,                               *)
(* custom_components/powercalc/sensors/group.py.                           *)
(*                                                                         *)
(* One GroupedEnergySensor is modelled: its member list, its native value, *)
(* its attach sequence, the recomputation on a member event, the scheduled *)
(* state write and the reset cascade.  Decimal values are integers counted *)
(* in units of 10^-FracDigits.                                             *)
(***************************************************************************)
EXTENDS Integers, Sequences, FiniteSets, TLC

VARIABLES
    entities,          \* self._entities, the member list
    attr_entities,     \* self._attr_extra_state_attributes[ATTR_ENTITIES]
    is_group,          \* self._attr_extra_state_attributes[ATTR_IS_GROUP]
    rounding_digits,   \* self._rounding_digits
    unit,              \* self._attr_native_unit_of_measurement
    native_value,      \* self._attr_native_value
    last_reset,        \* self._attr_last_reset (0: never reset)
    lifecycle,         \* position of the entity in its attach/remove sequence
    subscribed,        \* the listener of async_track_state_change_event is registered
    tracked,           \* the entity ids that listener was registered for
    registry,          \* hass.states: entity id -> state, or NoState
    last_state,        \* what async_get_last_state returns
    pending_updates,   \* scheduled async_update_ha_state(True) tasks
    pub,               \* the group's own state in hass.states
    fired,             \* the last write of pub fired a state_changed event
    tasks,             \* reset service calls created and not yet run
    now,               \* dt_util.utcnow(), counted in calls
    op,                \* the operation that took the last step
    raised,            \* the last operation ended by raising
    recomputed,        \* on_state_change has run since construction
    mismatch_seen,     \* members read as available with another unit by some recomputation
    all_entities,      \* create_group_sensors: the entities it is given
    filters,           \* create_group_sensors: the caller's list of filters
    power_sensor_ids,  \* create_group_sensors: the member list of the power group
    remembered         \* the input and the outcome of one earlier recomputation

group_vars == <<entities, attr_entities, is_group, rounding_digits, unit, native_value,
                last_reset, lifecycle, subscribed, tracked, registry, last_state,
                pending_updates, pub, fired, tasks, now, op, raised, recomputed,
                mismatch_seen>>

create_vars == <<all_entities, filters, power_sensor_ids>>

observer_vars == <<remembered>>

vars == <<group_vars, create_vars, observer_vars>>

----------------------------------------------------------------------------
(* Bounds *)

MaxPending == 1      \* scheduled state writes outstanding at once
MaxResets == 2       \* calls of async_reset_energy
FracDigits == 1      \* decimal places carried by the modelled values
MaxPool == 3         \* entities given to create_group_sensors
MaxFilters == 2      \* filters given to create_group_sensors

MemberIds == {"a", "b", "c"}

----------------------------------------------------------------------------
(* Values *)

STATE_UNAVAILABLE == "unavailable"

STATE_UNKNOWN == "unknown"

ENERGY_KILO_WATT_HOUR == "kWh"

ENERGY_WATT_HOUR == "Wh"

ENERGY_MEGA_WATT_HOUR == "MWh"

\* The unit chosen from the configured prefix.
UnitOfPrefix(unit_prefix) ==
    CASE unit_prefix = "KILO" -> ENERGY_KILO_WATT_HOUR
      [] unit_prefix = "NONE" -> ENERGY_WATT_HOUR
      [] unit_prefix = "MEGA" -> ENERGY_MEGA_WATT_HOUR

\* A native value: None, a string (restored) or a Decimal (computed).
NoneValue == [t |-> "none", s |-> "", n |-> 0]

StrValue(s) == [t |-> "str", s |-> s, n |-> 0]

DecValue(n) == [t |-> "dec", s |-> "", n |-> n]

\* hass.states.get(entity_id) of an entity that has no state.
NoState == [exists |-> FALSE, state |-> "", unit |-> ""]

MkState(state, u) == [exists |-> TRUE, state |-> state, unit |-> u]

RECURSIVE Pow10(_)
Pow10(k) == IF k <= 0 THEN 1 ELSE 10 * Pow10(k - 1)

\* Decimal(s): the strings of the model that parse, and their values.
DecimalTable ==
    [s \in {"2.5", "5"} |-> (IF s = "2.5" THEN 25 ELSE 50) * Pow10(FracDigits - 1)]

IsDecimal(s) == s \in DOMAIN DecimalTable

Decimal(s) == DecimalTable[s]

\* round(Decimal, ndigits): ROUND_HALF_EVEN at 10^-ndigits.
Round(n, ndigits) ==
    IF ndigits >= FracDigits THEN n
    ELSE LET q == Pow10(FracDigits - ndigits)
             r == n % q
             base == n - r
         IN  IF 2 * r < q THEN base
             ELSE IF 2 * r > q THEN base + q
             ELSE IF (base \div q) % 2 = 0 THEN base ELSE base + q

----------------------------------------------------------------------------
(* Lists *)

RECURSIVE ListRemove(_, _)
\* list.remove(x): drops the first element equal to x.
ListRemove(list, x) ==
    IF list = <<>> THEN <<>>
    ELSE IF Head(list) = x THEN Tail(list)
    ELSE <<Head(list)>> \o ListRemove(Tail(list), x)

RECURSIVE SumDecimal(_)
\* sum(Decimal(state.state) for state in available_states)
SumDecimal(list) ==
    IF list = <<>> THEN 0 ELSE Decimal(Head(list).state) + SumDecimal(Tail(list))

ToSet(list) == {list[i] : i \in 1..Len(list)}

----------------------------------------------------------------------------
(* Construction *)

UnitPrefixes == {"KILO"}

Precisions == {0, 1}

\* What the restore store can hold for the group: nothing, or its last state.
LastStates == {NoState, MkState("7.5", "")}

\* No recomputation has been recorded.
NoObservation == [seen |-> FALSE]

NoPub == [exists |-> FALSE, state |-> NoneValue, last_reset |-> 0]

\* GroupedEnergySensor.__init__, for a group made with the given member list
\* in a host whose restore store holds one of the given states.
Construct(members, stored, precisions) ==
    /\ entities = members
    /\ attr_entities = members
    /\ is_group = TRUE
    /\ rounding_digits \in precisions
    /\ unit \in {UnitOfPrefix(p) : p \in UnitPrefixes}
    /\ native_value = NoneValue
    /\ last_reset = 0
    /\ lifecycle = "constructed"
    /\ subscribed = FALSE
    /\ tracked = {}
    /\ registry = [m \in ToSet(members) |-> NoState]
    /\ last_state \in stored
    /\ pending_updates = 0
    /\ pub = NoPub
    /\ fired = FALSE
    /\ tasks = [m \in ToSet(members) |-> 0]
    /\ now = 0
    /\ op = "init"
    /\ raised = FALSE
    /\ recomputed = FALSE
    /\ mismatch_seen = {}
    /\ all_entities = <<>>
    /\ filters = <<>>
    /\ power_sensor_ids = <<>>
    /\ remembered = NoObservation

----------------------------------------------------------------------------
(* create_group_sensors *)

\* The classes an entity given to create_group_sensors is an instance of.
EntityClasses ==
    {{"SensorEntity"},
     {"SensorEntity", "PowerSensor"},
     {"SensorEntity", "EnergySensor"},
     {"SensorEntity", "GroupedSensor", "PowerSensor"},
     {"SensorEntity", "GroupedSensor", "EnergySensor"}}

\* The entity lists: each entity has its own entity id.
EntityLists ==
    UNION {[1..n -> EntityClasses] : n \in 0..MaxPool}

Entity(i, classes) == [entity_id |-> "e" \o ToString(i), classes |-> classes]

\* The filters a caller passes: callables on an entity, here by entity id.
CallerFilters ==
    {[kind |-> "accepts", arg |-> {"e1", "e2"}],
     [kind |-> "accepts", arg |-> {"e2", "e3"}]}

FilterLists == UNION {[1..n -> CallerFilters] : n \in 0..MaxFilters}

\* lambda elm: not isinstance(elm, GroupedSensor)
NotGroupedFilter == [kind |-> "not_isinstance", arg |-> {"GroupedSensor"}]

\* lambda elm: isinstance(elm, className)
ClassFilter(className) == [kind |-> "isinstance", arg |-> {className}]

\* f(x) for a filter f.
ApplyFilter(f, x) ==
    CASE f.kind = "accepts" -> x.entity_id \in f.arg
      [] f.kind = "not_isinstance" -> f.arg \cap x.classes = {}
      [] f.kind = "isinstance" -> f.arg \subseteq x.classes

\* _get_filtered_entity_ids_by_class appending to default_filters itself.
GetFilteredEntityIdsInPlace(entity_list, default_filters, className) ==
    LET fs == Append(Append(default_filters, NotGroupedFilter), ClassFilter(className))
        kept == SelectSeq(entity_list,
                          LAMBDA x : \A i \in 1..Len(fs) : ApplyFilter(fs[i], x))
    IN  [ids |-> [i \in 1..Len(kept) |-> kept[i].entity_id],
         all_entities |-> entity_list,
         default_filters |-> fs]

\* _get_filtered_entity_ids_by_class: the ids it returns, and its two list
\* arguments as the call leaves them.
GetFilteredEntityIdsByClass(entity_list, default_filters, className) ==
    LET copied == default_filters
        fs == Append(Append(copied, NotGroupedFilter), ClassFilter(className))
        kept == SelectSeq(entity_list,
                          LAMBDA x : \A i \in 1..Len(fs) : ApplyFilter(fs[i], x))
    IN  [ids |-> [i \in 1..Len(kept) |-> kept[i].entity_id],
         all_entities |-> entity_list,
         default_filters |-> default_filters]

\* Before create_group_sensors has run there is no group.
InitCreate ==
    /\ all_entities \in {[i \in DOMAIN l |-> Entity(i, l[i])] : l \in EntityLists}
    /\ filters \in FilterLists
    /\ power_sensor_ids = <<>>
    /\ entities = <<>>
    /\ attr_entities = <<>>
    /\ is_group = FALSE
    /\ rounding_digits \in {0}
    /\ unit \in {UnitOfPrefix(p) : p \in UnitPrefixes}
    /\ native_value = NoneValue
    /\ last_reset = 0
    /\ lifecycle = "unbuilt"
    /\ subscribed = FALSE
    /\ tracked = {}
    /\ registry = <<>>
    /\ last_state = NoState
    /\ pending_updates = 0
    /\ pub = NoPub
    /\ fired = FALSE
    /\ tasks = <<>>
    /\ now = 0
    /\ op = "init"
    /\ raised = FALSE
    /\ recomputed = FALSE
    /\ mismatch_seen = {}
    /\ remembered = NoObservation

\* create_group_sensors up to the creation of the energy group: the ids for
\* the power group, then the ids for the energy group, which becomes the
\* group followed here.
CreateGroupSensors ==
    /\ lifecycle \in {"unbuilt", "constructed"}
    /\ LET power == GetFilteredEntityIdsByClass(all_entities, filters, "PowerSensor")
           energy == GetFilteredEntityIdsByClass(power.all_entities,
                                                 power.default_filters, "EnergySensor")
       IN  /\ power_sensor_ids' = power.ids
           /\ all_entities' = energy.all_entities
           /\ filters' = energy.default_filters
           /\ entities' = energy.ids
           /\ attr_entities' = energy.ids
           /\ registry' = [m \in ToSet(energy.ids) |-> NoState]
           /\ tasks' = [m \in ToSet(energy.ids) |-> 0]
    /\ is_group' = TRUE
    /\ lifecycle' = "constructed"
    /\ op' = "create_group_sensors"
    /\ raised' = FALSE
    /\ UNCHANGED <<rounding_digits, unit, native_value, last_reset, subscribed,
                   tracked, last_state, pending_updates, pub, fired, now, recomputed,
                   mismatch_seen, observer_vars>>

----------------------------------------------------------------------------
(* The state machine of the host: hass.states *)

\* The states a member can report.
MemberStates ==
    {NoState, MkState(STATE_UNAVAILABLE, ""), MkState(STATE_UNKNOWN, ""),
     MkState("2.5", ENERGY_KILO_WATT_HOUR), MkState("5", ENERGY_KILO_WATT_HOUR),
     MkState("5", ENERGY_WATT_HOUR), MkState("abc", ENERGY_KILO_WATT_HOUR)}

\* A member's state changes in the registry.
SetState(m, s) ==
    /\ m \in DOMAIN registry
    /\ registry[m] # s
    /\ registry' = [registry EXCEPT ![m] = s]
    /\ op' = "set_state"
    /\ UNCHANGED <<create_vars, observer_vars>>
    /\ raised' = FALSE
    /\ UNCHANGED <<entities, attr_entities, is_group, rounding_digits, unit,
                   native_value, last_reset, lifecycle, subscribed, tracked,
                   last_state, pending_updates, pub, fired, tasks, now, recomputed,
                   mismatch_seen>>

\* The state the entity writes: its state string and its attributes.  The
\* entities attribute is the member list object itself, so it is not copied here.
HaState(value, reset) ==
    [exists |-> TRUE,
     state |-> IF value = NoneValue THEN StrValue(STATE_UNKNOWN) ELSE value,
     last_reset |-> reset]

\* hass.states.async_set with force_update False: an event is fired only when
\* the state or the attributes differ from what is stored.
AsyncSet(new) ==
    /\ fired' = (pub # new)
    /\ pub' = new

----------------------------------------------------------------------------
(* GroupedSensor.async_added_to_hass *)

\* The platform calls async_added_to_hass, which suspends in
\* await super().async_added_to_hass().
AddedToHassCall ==
    /\ lifecycle = "constructed"
    /\ lifecycle' = "await_super"
    /\ op' = "added_call"
    /\ UNCHANGED <<create_vars, observer_vars>>
    /\ raised' = FALSE
    /\ UNCHANGED <<entities, attr_entities, is_group, rounding_digits, unit,
                   native_value, last_reset, subscribed, tracked, registry,
                   last_state, pending_updates, pub, fired, tasks, now, recomputed,
                   mismatch_seen>>

\* async_added_to_hass registering the listener before it awaits the last state.
AddedToHassSuperSubscribes ==
    /\ lifecycle = "await_super"
    /\ lifecycle' = "await_last_state"
    /\ subscribed' = TRUE
    /\ tracked' = ToSet(entities)
    /\ op' = "added_super"
    /\ UNCHANGED <<create_vars, observer_vars>>
    /\ raised' = FALSE
    /\ UNCHANGED <<entities, attr_entities, is_group, rounding_digits, unit,
                   native_value, last_reset, registry, last_state, pending_updates,
                   pub, fired, tasks, now, recomputed, mismatch_seen>>

\* super().async_added_to_hass() returns; the coroutine suspends in
\* await self.async_get_last_state().
AddedToHassSuper ==
    /\ lifecycle = "await_super"
    /\ lifecycle' = "await_last_state"
    /\ op' = "added_super"
    /\ UNCHANGED <<create_vars, observer_vars>>
    /\ raised' = FALSE
    /\ UNCHANGED <<entities, attr_entities, is_group, rounding_digits, unit,
                   native_value, last_reset, subscribed, tracked, registry,
                   last_state, pending_updates, pub, fired, tasks, now, recomputed,
                   mismatch_seen>>

\* The end of async_added_to_hass without the assignment of the last state.
AddedToHassNoRestore ==
    /\ lifecycle = "await_last_state"
    /\ subscribed' = TRUE
    /\ tracked' = ToSet(entities)
    /\ lifecycle' = "added"
    /\ op' = "added_restore"
    /\ UNCHANGED <<create_vars, observer_vars>>
    /\ raised' = FALSE
    /\ UNCHANGED <<entities, attr_entities, is_group, rounding_digits, unit,
                   native_value, last_reset, registry, last_state, pending_updates,
                   pub, fired, tasks, now, recomputed, mismatch_seen>>

\* async_get_last_state() returns; the value is restored and the listener
\* registered, without suspending in between.
AddedToHassRestore ==
    /\ lifecycle = "await_last_state"
    /\ native_value' = IF last_state # NoState THEN StrValue(last_state.state)
                       ELSE native_value
    /\ subscribed' = TRUE
    /\ tracked' = ToSet(entities)
    /\ lifecycle' = "added"
    /\ op' = "added_restore"
    /\ UNCHANGED <<create_vars, observer_vars>>
    /\ raised' = FALSE
    /\ UNCHANGED <<entities, attr_entities, is_group, rounding_digits, unit,
                   last_reset, registry, last_state, pending_updates, pub, fired,
                   tasks, now, recomputed, mismatch_seen>>

\* The entity is removed from the host.  GroupedSensor overrides no removal
\* hook and keeps no handle of its listener, so the listener stays registered.
Remove ==
    /\ lifecycle = "added"
    /\ lifecycle' = "removed"
    /\ op' = "remove"
    /\ UNCHANGED <<create_vars, observer_vars>>
    /\ raised' = FALSE
    /\ UNCHANGED <<entities, attr_entities, is_group, rounding_digits, unit,
                   native_value, last_reset, subscribed, tracked, registry,
                   last_state, pending_updates, pub, fired, tasks, now, recomputed,
                   mismatch_seen>>

----------------------------------------------------------------------------
(* GroupedSensor.on_state_change *)

ignored_states == {STATE_UNAVAILABLE, STATE_UNKNOWN}

\* hass.states.get(entity_id), carrying the entity id as State does.
StateGet(entity_id) ==
    [entity_id |-> entity_id,
     exists |-> registry[entity_id].exists,
     state |-> registry[entity_id].state,
     unit |-> registry[entity_id].unit]

\* The member has a state and it is neither 'unavailable' nor 'unknown'.
IsAvailable(m) ==
    /\ registry[m].exists
    /\ registry[m].state \notin ignored_states

\* The member is available and its unit is not the group's unit.
IsMismatch(m) == IsAvailable(m) /\ registry[m].unit # unit

\* The member is available and its unit is the group's unit.
IsEligible(m) == IsAvailable(m) /\ registry[m].unit = unit

\* all_states without filtering the ignored states.
AvailableStatesNoIgnore(ents) ==
    LET all_states == [i \in 1..Len(ents) |-> StateGet(ents[i])]
    IN  SelectSeq(all_states, LAMBDA st : st.exists)

\* all_states, filtered of None and of the ignored states.
AvailableStates(ents) ==
    LET all_states == [i \in 1..Len(ents) |-> StateGet(ents[i])]
        states == SelectSeq(all_states, LAMBDA st : st.exists)
    IN  SelectSeq(states, LAMBDA st : st.state \notin ignored_states)

RECURSIVE RemoveLoopKeepsEntity(_, _, _)
\* The loop without self._entities.remove(state.entity_id).
RemoveLoopKeepsEntity(available_states, ents, i) ==
    IF i > Len(available_states)
    THEN [available_states |-> available_states, entities |-> ents]
    ELSE LET state == available_states[i]
         IN  IF state.unit # unit
             THEN RemoveLoopKeepsEntity(ListRemove(available_states, state), ents, i + 1)
             ELSE RemoveLoopKeepsEntity(available_states, ents, i + 1)

RECURSIVE RemoveLoop(_, _, _)
\* for state in available_states: ... available_states.remove(state);
\* self._entities.remove(state.entity_id).  The list iterator holds an index
\* into the list it walks, so it advances over the list as it is after the
\* removal.
RemoveLoop(available_states, ents, i) ==
    IF i > Len(available_states)
    THEN [available_states |-> available_states, entities |-> ents]
    ELSE LET state == available_states[i]
         IN  IF state.unit # unit
             THEN RemoveLoop(ListRemove(available_states, state),
                             ListRemove(ents, state.entity_id), i + 1)
             ELSE RemoveLoop(available_states, ents, i + 1)

\* on_state_change leaving everything as it is when the member that changed
\* is not available.
RecomputeIfTriggerAvailable(event) ==
    /\ subscribed
    /\ event \in tracked
    /\ pending_updates < MaxPending
    /\ LET r == RemoveLoop(AvailableStates(entities), entities, 1)
           parsed == \A i \in 1..Len(r.available_states) :
                        IsDecimal(r.available_states[i].state)
       IN  IF ~IsAvailable(event)
           THEN /\ raised' = FALSE
                /\ UNCHANGED <<entities, attr_entities, mismatch_seen, native_value,
                               pending_updates>>
           ELSE /\ entities' = r.entities
                /\ attr_entities' = r.entities
                /\ mismatch_seen' =
                      mismatch_seen \cup {m \in ToSet(entities) : IsMismatch(m)}
                /\ IF parsed
                   THEN /\ native_value' =
                              DecValue(Round(SumDecimal(r.available_states),
                                             rounding_digits))
                        /\ pending_updates' = pending_updates + 1
                        /\ raised' = FALSE
                   ELSE /\ raised' = TRUE
                        /\ UNCHANGED <<native_value, pending_updates>>
    /\ op' = "on_state_change"
    /\ recomputed' = TRUE
    /\ UNCHANGED <<is_group, rounding_digits, unit, last_reset, lifecycle,
                   subscribed, tracked, registry, last_state, pub, fired, tasks,
                   now, create_vars>>

\* on_state_change rebinding self._entities to a pruned copy, so that the
\* list held by the attributes is left as it was.
RecomputeRebindsList(event) ==
    /\ subscribed
    /\ event \in tracked
    /\ pending_updates < MaxPending
    /\ LET r == RemoveLoop(AvailableStates(entities), entities, 1)
           parsed == \A i \in 1..Len(r.available_states) :
                        IsDecimal(r.available_states[i].state)
       IN  /\ entities' = r.entities
           /\ UNCHANGED attr_entities
           /\ mismatch_seen' = mismatch_seen \cup {m \in ToSet(entities) : IsMismatch(m)}
           /\ IF parsed
              THEN /\ native_value' =
                         DecValue(Round(SumDecimal(r.available_states), rounding_digits))
                   /\ pending_updates' = pending_updates + 1
                   /\ raised' = FALSE
              ELSE /\ raised' = TRUE
                   /\ UNCHANGED <<native_value, pending_updates>>
    /\ op' = "on_state_change"
    /\ recomputed' = TRUE
    /\ UNCHANGED <<is_group, rounding_digits, unit, last_reset, lifecycle,
                   subscribed, tracked, registry, last_state, pub, fired, tasks,
                   now, create_vars>>

\* The body of on_state_change, run for a member event.
Recompute(event) ==
    /\ subscribed
    /\ event \in tracked
    /\ pending_updates < MaxPending
    /\ LET r == RemoveLoop(AvailableStates(entities), entities, 1)
           parsed == \A i \in 1..Len(r.available_states) :
                        IsDecimal(r.available_states[i].state)
       IN  /\ entities' = r.entities
           /\ attr_entities' = r.entities
           /\ mismatch_seen' = mismatch_seen \cup {m \in ToSet(entities) : IsMismatch(m)}
           /\ IF parsed
              THEN /\ native_value' =
                         DecValue(Round(SumDecimal(r.available_states), rounding_digits))
                   /\ pending_updates' = pending_updates + 1
                   /\ raised' = FALSE
              ELSE /\ raised' = TRUE
                   /\ UNCHANGED <<native_value, pending_updates>>
    /\ op' = "on_state_change"
    /\ recomputed' = TRUE
    /\ UNCHANGED <<is_group, rounding_digits, unit, last_reset, lifecycle,
                   subscribed, tracked, registry, last_state, pub, fired, tasks,
                   now, create_vars>>

\* A member event is delivered to the listener.
OnStateChange(event) ==
    /\ Recompute(event)
    /\ UNCHANGED observer_vars

\* What a call of on_state_change read and what it produced.
Observation ==
    [seen |-> TRUE,
     entities |-> entities,
     registry |-> registry,
     unit |-> unit,
     rounding_digits |-> rounding_digits,
     native_value |-> native_value,
     out_entities |-> entities',
     out_raised |-> raised',
     out_value |-> IF raised' THEN NoneValue ELSE native_value']

\* A member event is delivered to the listener, and this call is the one that
\* is remembered.
OnStateChangeRemembered(event) ==
    /\ ~remembered.seen
    /\ Recompute(event)
    /\ remembered' = Observation

\* The task made by async_schedule_update_ha_state(True) runs and writes the
\* entity's state.  The argument is force_refresh; the write itself is made with
\* the entity's force_update, which the class leaves False.
UpdateHaState ==
    /\ pending_updates > 0
    /\ pending_updates' = pending_updates - 1
    /\ AsyncSet(HaState(native_value, last_reset))
    /\ op' = "update_ha_state"
    /\ UNCHANGED <<create_vars, observer_vars>>
    /\ raised' = FALSE
    /\ UNCHANGED <<entities, attr_entities, is_group, rounding_digits, unit,
                   native_value, last_reset, lifecycle, subscribed, tracked,
                   registry, last_state, tasks, now, recomputed, mismatch_seen>>

----------------------------------------------------------------------------
(* GroupedEnergySensor.async_reset_energy *)

\* async_reset_energy calling every member the listener was registered for.
AsyncResetEnergyAllTracked ==
    /\ lifecycle = "added"
    /\ now < MaxResets
    /\ tasks' = [m \in DOMAIN tasks |-> tasks[m] + (IF m \in tracked THEN 1 ELSE 0)]
    /\ now' = now + 1
    /\ last_reset' = now'
    /\ AsyncSet(HaState(native_value, last_reset'))
    /\ op' = "reset_energy"
    /\ UNCHANGED <<create_vars, observer_vars>>
    /\ raised' = FALSE
    /\ UNCHANGED <<entities, attr_entities, is_group, rounding_digits, unit,
                   native_value, lifecycle, subscribed, tracked, registry,
                   last_state, pending_updates, recomputed, mismatch_seen>>

\* async_reset_energy without its closing async_write_ha_state.
AsyncResetEnergyNoWrite ==
    /\ lifecycle = "added"
    /\ now < MaxResets
    /\ tasks' = [m \in DOMAIN tasks |->
                   tasks[m] + Cardinality({i \in 1..Len(entities) : entities[i] = m})]
    /\ now' = now + 1
    /\ last_reset' = now'
    /\ op' = "reset_energy"
    /\ UNCHANGED <<create_vars, observer_vars>>
    /\ raised' = FALSE
    /\ UNCHANGED <<entities, attr_entities, is_group, rounding_digits, unit,
                   native_value, lifecycle, subscribed, tracked, registry,
                   last_state, pending_updates, pub, fired, recomputed,
                   mismatch_seen>>

\* async_reset_energy that also sets the value back to zero.
AsyncResetEnergyZeroes ==
    /\ lifecycle = "added"
    /\ now < MaxResets
    /\ tasks' = [m \in DOMAIN tasks |->
                   tasks[m] + Cardinality({i \in 1..Len(entities) : entities[i] = m})]
    /\ now' = now + 1
    /\ last_reset' = now'
    /\ native_value' = DecValue(0)
    /\ AsyncSet(HaState(native_value', last_reset'))
    /\ op' = "reset_energy"
    /\ UNCHANGED <<create_vars, observer_vars>>
    /\ raised' = FALSE
    /\ UNCHANGED <<entities, attr_entities, is_group, rounding_digits, unit,
                   lifecycle, subscribed, tracked, registry,
                   last_state, pending_updates, recomputed, mismatch_seen>>

\* The reset service is called on the group.
AsyncResetEnergy ==
    /\ lifecycle = "added"
    /\ now < MaxResets
    /\ tasks' = [m \in DOMAIN tasks |->
                   tasks[m] + Cardinality({i \in 1..Len(entities) : entities[i] = m})]
    /\ now' = now + 1
    /\ last_reset' = now'
    /\ AsyncSet(HaState(native_value, last_reset'))
    /\ op' = "reset_energy"
    /\ UNCHANGED <<create_vars, observer_vars>>
    /\ raised' = FALSE
    /\ UNCHANGED <<entities, attr_entities, is_group, rounding_digits, unit,
                   native_value, lifecycle, subscribed, tracked, registry,
                   last_state, pending_updates, recomputed, mismatch_seen>>

\* One of the created service calls runs, and succeeds or fails.  The calls are
\* tasks made by hass.async_create_task inside a callback: the event loop starts
\* them after the callback has returned.
ResetCall(entity_id, ok) ==
    /\ entity_id \in DOMAIN tasks
    /\ tasks[entity_id] > 0
    /\ tasks' = [tasks EXCEPT ![entity_id] = @ - 1]
    /\ op' = "reset_call"
    /\ UNCHANGED <<create_vars, observer_vars>>
    /\ raised' = ~ok
    /\ UNCHANGED <<entities, attr_entities, is_group, rounding_digits, unit,
                   native_value, last_reset, lifecycle, subscribed, tracked,
                   registry, last_state, pending_updates, pub, fired, now, recomputed,
                   mismatch_seen>>

----------------------------------------------------------------------------
(* Specifications *)

Init == Construct(<<"a", "b">>, LastStates, Precisions)

Next ==
    \/ AddedToHassCall
    \/ AddedToHassSuper
    \/ AddedToHassRestore
    \/ Remove
    \/ \E m \in MemberIds, s \in MemberStates : SetState(m, s)
    \/ \E event \in MemberIds : OnStateChange(event)
    \/ UpdateHaState

Spec == Init /\ [][Next]_vars

\* The reset cascade, over members that are absent, unavailable, unknown,
\* summed, unparseable or of another unit.
ResetMemberStates ==
    {NoState, MkState(STATE_UNAVAILABLE, ""), MkState(STATE_UNKNOWN, ""),
     MkState("5", ENERGY_KILO_WATT_HOUR), MkState("5", ENERGY_WATT_HOUR),
     MkState("abc", ENERGY_KILO_WATT_HOUR)}

InitReset == Construct(<<"a", "b">>, {NoState}, {0})

NextReset ==
    \/ AddedToHassCall
    \/ AddedToHassSuper
    \/ AddedToHassRestore
    \/ \E m \in MemberIds, s \in ResetMemberStates : SetState(m, s)
    \/ \E event \in MemberIds : OnStateChange(event)
    \/ UpdateHaState
    \/ AsyncResetEnergy
    \/ \E m \in MemberIds : ResetCall(m, TRUE)
    \/ \E m \in MemberIds : ResetCall(m, FALSE)

SpecReset == InitReset /\ [][NextReset]_vars

\* A group of three members that report 5 in the group's unit, are
\* unavailable, or report 5 in another unit.
ScenarioStates ==
    {MkState("5", ENERGY_KILO_WATT_HOUR), MkState(STATE_UNAVAILABLE, ""),
     MkState("5", ENERGY_WATT_HOUR)}

InitScenario == Construct(<<"a", "b", "c">>, {NoState}, Precisions)

NextScenario ==
    \/ AddedToHassCall
    \/ AddedToHassSuper
    \/ AddedToHassRestore
    \/ \E m \in MemberIds, s \in ScenarioStates : SetState(m, s)
    \/ \E event \in MemberIds : OnStateChange(event)
    \/ UpdateHaState

SpecScenario == InitScenario /\ [][NextScenario]_vars

NextCreate == CreateGroupSensors

SpecCreate == InitCreate /\ [][NextCreate]_vars

\* Recomputations compared with an earlier one, over members that are absent,
\* unavailable, summed, unparseable or of another unit.
CacheMemberStates ==
    {MkState(STATE_UNAVAILABLE, ""), MkState("5", ENERGY_KILO_WATT_HOUR),
     MkState("5", ENERGY_WATT_HOUR), MkState("abc", ENERGY_KILO_WATT_HOUR)}

InitCache == Construct(<<"a", "b">>, LastStates, {0})

NextCache ==
    \/ AddedToHassCall
    \/ AddedToHassSuper
    \/ AddedToHassRestore
    \/ \E m \in MemberIds, s \in CacheMemberStates : SetState(m, s)
    \/ \E event \in MemberIds : OnStateChange(event)
    \/ \E event \in MemberIds : OnStateChangeRemembered(event)
    \/ UpdateHaState

SpecCache == InitCache /\ [][NextCache]_vars

----------------------------------------------------------------------------
(* Properties *)

RECURSIVE SumOver(_)
\* The exact sum of the parsed values of a set of members.
SumOver(S) ==
    IF S = {} THEN 0
    ELSE LET m == CHOOSE x \in S : TRUE
         IN  Decimal(registry[m].state) + SumOver(S \ {m})

\* The members of the list that count towards the sum.
EligibleMembers == {m \in ToSet(entities) : IsEligible(m)}

\* C1: after every completed recomputation the aggregate value is the sum of
\* the values of the members that are present, available and of the group's
\* unit, rounded once to the configured precision; every other member
\* contributes nothing.
C1_ValueIsSumOfEligible ==
    (op = "on_state_change" /\ ~raised) =>
        native_value = DecValue(Round(SumOver(EligibleMembers), rounding_digits))

\* C2: immediately after a recomputation the member list holds no member that
\* was available with another unit in the registry just read.
C2_NoMismatchLeftAfterRecomputation ==
    op = "on_state_change" => \A m \in ToSet(entities) : ~IsMismatch(m)

\* C3: a member read as available with another unit by some recomputation is
\* absent from the member list ever after.
C3_MismatchSeenIsGone ==
    \A m \in mismatch_seen : m \notin ToSet(entities)

\* C4: every step leaves the member list a sub-list of what it was, and takes
\* out only members that are available with another unit; absent, unavailable
\* and unknown members stay.
C4_MembershipOnlyShrinksByMismatch ==
    [][/\ entities' = SelectSeq(entities, LAMBDA m : m \in ToSet(entities'))
       /\ \A m \in ToSet(entities) \ ToSet(entities') : IsMismatch(m)
       /\ \A m \in ToSet(entities) : ~IsAvailable(m) => m \in ToSet(entities')]_vars

\* C4 witness: after a reset and a recomputation, a member of another unit is
\* gone and an unavailable member is still in the list.
C4_Witness ==
    /\ op = "on_state_change"
    /\ last_reset > 0
    /\ Len(entities) = 1
    /\ registry[entities[1]].state = STATE_UNAVAILABLE
    /\ mismatch_seen # {}

\* C5: with no member of another unit, a recomputation over a member whose
\* value does not parse still completes, and sets the value to the rounded sum
\* of the eligible members that do parse.
C5_UnparseableIsSkipped ==
    (op = "on_state_change" /\ \A m \in DOMAIN registry : ~IsMismatch(m)) =>
        /\ ~raised
        /\ native_value =
              DecValue(Round(SumOver({m \in EligibleMembers : IsDecimal(registry[m].state)}),
                             rounding_digits))

\* C6: once the entity is removed no recomputation runs.
C6_NoRecomputationAfterRemove ==
    lifecycle = "removed" => (~subscribed /\ op # "on_state_change")

\* C7: every recomputation ends by scheduling the state write, and every such
\* write fires a state_changed event.
C7_RecomputationAlwaysNotifies ==
    /\ op = "on_state_change" => (~raised /\ pending_updates > 0)
    /\ op = "update_ha_state" => fired

\* C8: a call of async_reset_energy creates one service call for each member
\* of the list as it is, none for any other entity, and sets last_reset in the
\* same step.
C8_ResetCallsEachCurrentMemberOnce ==
    [][op' = "reset_energy" =>
          /\ \A m \in DOMAIN tasks :
                tasks'[m] = tasks[m] + (IF m \in ToSet(entities) THEN 1 ELSE 0)
          /\ last_reset' = now'
          /\ last_reset' > last_reset
          /\ entities' = entities]_vars

\* C8 witness: a reset of a group that has lost a member to another unit.
C8_Witness ==
    /\ op = "reset_energy"
    /\ Len(entities) = 1
    /\ \E m \in DOMAIN tasks : m \notin ToSet(entities) /\ tasks[m] = 0
    /\ tasks[entities[1]] = 1

\* C9: when a reset service call runs, last_reset is already set and written
\* to the state machine; the call, failing or not, leaves last_reset, the
\* written state and the other service calls as they are.
C9_MarkerCommittedBeforeCalls ==
    [][op' = "reset_call" =>
          /\ last_reset > 0
          /\ pub.exists /\ pub.last_reset = last_reset
          /\ last_reset' = last_reset
          /\ pub' = pub
          /\ \E m \in DOMAIN tasks :
                tasks' = [tasks EXCEPT ![m] = @ - 1]]_vars

\* C9 witness: a service call has failed while the call for the other member
\* is still to run, after a later recomputation.
C9_Witness ==
    /\ op = "reset_call"
    /\ raised
    /\ recomputed
    /\ \E m \in DOMAIN tasks : tasks[m] > 0
    /\ last_reset > 0

\* C10: after the attach and before any member event is handled, the value is
\* the restored state when there is one and None when there is none.
C10_RestoredValueUntilFirstEvent ==
    (lifecycle \in {"added", "removed"} /\ ~recomputed) =>
        native_value = (IF last_state # NoState THEN StrValue(last_state.state)
                        ELSE NoneValue)

\* C10 witness: attached with a restored value while a member already reports
\* a value, and no event handled yet.
C10_Witness ==
    /\ lifecycle = "added"
    /\ ~recomputed
    /\ last_state # NoState
    /\ native_value = StrValue("7.5")
    /\ \E m \in ToSet(entities) : IsEligible(m)

\* C11: until async_added_to_hass has restored the value the listener is not
\* registered and no recomputation has run, whatever the members did while it
\* was suspended; the restore is made once, on a value no recomputation has
\* set, and a restored value is never found in place of a computed one.
C11_RestoreBeforeSubscription ==
    /\ lifecycle \in {"constructed", "await_super", "await_last_state"} =>
          (~subscribed /\ ~recomputed /\ native_value = NoneValue)
    /\ op = "added_restore" => (~recomputed /\ subscribed /\ lifecycle = "added")
    /\ native_value.t = "dec" => (recomputed /\ lifecycle \in {"added", "removed"})
    /\ (recomputed /\ native_value.t # "dec") =>
          native_value = (IF last_state # NoState THEN StrValue(last_state.state)
                          ELSE NoneValue)

\* C11 witness: the restore has just completed although a member changed to
\* an available state while async_added_to_hass was suspended.
C11_Witness ==
    /\ op = "added_restore"
    /\ last_state # NoState
    /\ native_value = StrValue(last_state.state)
    /\ \E m \in DOMAIN registry : IsEligible(m)

\* C12: with a reporting 5 in the group's unit and b unavailable, a member
\* event on the list [a, b, c] with c available in another unit, or on the
\* list [a, b], sets the value to 5 rounded and leaves the list [a, b].
C12_ScenarioFiveUnavailableMismatch ==
    [][(/\ op' = "on_state_change"
        /\ registry["a"] = MkState("5", ENERGY_KILO_WATT_HOUR)
        /\ registry["b"] = MkState(STATE_UNAVAILABLE, "")
        /\ \/ entities = <<"a", "b", "c">> /\ IsMismatch("c")
           \/ entities = <<"a", "b">>)
       => /\ entities' = <<"a", "b">>
          /\ ~raised'
          /\ native_value' = DecValue(Round(Decimal("5"), rounding_digits))]_vars

\* C12 witness: c has been removed for its unit, 5 has been written, and a
\* later event over [a, b] has given 5 again.
C12_Witness ==
    /\ op = "on_state_change"
    /\ entities = <<"a", "b">>
    /\ mismatch_seen = {"c"}
    /\ registry["a"] = MkState("5", ENERGY_KILO_WATT_HOUR)
    /\ registry["b"] = MkState(STATE_UNAVAILABLE, "")
    /\ native_value = DecValue(Decimal("5"))
    /\ pub.exists /\ pub.state = DecValue(Decimal("5"))
    /\ pending_updates = 1

RECURSIVE SelectedIds(_, _, _)
\* The ids, in the order of the list, of the entities that every caller
\* filter accepts, that are no GroupedSensor and that are of the class.
SelectedIds(entity_list, caller_filters, className) ==
    IF entity_list = <<>> THEN <<>>
    ELSE LET x == Head(entity_list)
             rest == SelectedIds(Tail(entity_list), caller_filters, className)
         IN  IF /\ \A i \in 1..Len(caller_filters) : ApplyFilter(caller_filters[i], x)
                /\ "GroupedSensor" \notin x.classes
                /\ className \in x.classes
             THEN <<x.entity_id>> \o rest
             ELSE rest

\* C13: create_group_sensors selects, for the power and for the energy group,
\* exactly the entities that pass every caller filter, are no GroupedSensor and
\* are of the class, in their order, and leaves the entity list and the
\* caller's filter list as they were, on a first call and on a repeated one.
C13_FilterSelectsAndMutatesNothing ==
    [][op' = "create_group_sensors" =>
          /\ power_sensor_ids' = SelectedIds(all_entities, filters, "PowerSensor")
          /\ entities' = SelectedIds(all_entities, filters, "EnergySensor")
          /\ all_entities' = all_entities
          /\ filters' = filters]_vars

\* C13 witness: from a list holding a grouped sensor and with a caller filter
\* that rejects an entity, a power and an energy entity have been selected.
C13_Witness ==
    /\ op = "create_group_sensors"
    /\ Len(all_entities) = MaxPool
    /\ \E i \in 1..Len(all_entities) : "GroupedSensor" \in all_entities[i].classes
    /\ Len(filters) > 0
    /\ \E i \in 1..Len(all_entities) :
          ~ApplyFilter(filters[1], all_entities[i])
    /\ Len(power_sensor_ids) = 1
    /\ Len(entities) = 1

\* C14: a recomputation that finds no member that is present, available and
\* of the group's unit completes, sets the value to zero and schedules its
\* write.
C14_ZeroEligibleGivesZero ==
    (op = "on_state_change" /\ EligibleMembers = {}) =>
        /\ ~raised
        /\ native_value = DecValue(0)
        /\ pending_updates > 0

\* C15: a recomputation that reads the member list, the unit, the precision
\* and the registry that an earlier one read gives the member list, the
\* outcome and the value that the earlier one gave, whatever the member that
\* changed and whatever the value before it; and every eligible member is in
\* the sum of a completed recomputation.
C15_RecomputationDependsOnInputsOnly ==
    [][op' = "on_state_change" =>
          /\ (/\ remembered.seen
              /\ remembered.entities = entities
              /\ remembered.registry = registry
              /\ remembered.unit = unit
              /\ remembered.rounding_digits = rounding_digits)
             => /\ entities' = remembered.out_entities
                /\ raised' = remembered.out_raised
                /\ ~raised' => native_value' = remembered.out_value
          /\ ~raised' =>
                native_value'.n >=
                   Round(SumOver({m \in ToSet(entities) : IsEligible(m)}), rounding_digits)]_vars

\* C15 witness: a completed recomputation over what the remembered one read,
\* from another value before it, that sums a member.
C15_Witness ==
    /\ op = "on_state_change"
    /\ ~raised
    /\ remembered.seen
    /\ remembered.registry = registry
    /\ remembered.out_entities = entities
    /\ remembered.entities = entities
    /\ remembered.native_value = StrValue("7.5")
    /\ remembered.out_value = native_value
    /\ native_value.n > 0
    /\ pub.exists /\ pub.state.t = "dec" /\ pub.state # native_value

\* C16: the entities attribute is the current member list at every moment,
\* and the group marker is true.
C16_AttributesFollowMembership ==
    /\ attr_entities = entities
    /\ is_group = TRUE

\* C16 witness: a recomputation has removed a member, and the attribute shows
\* the shorter list.
C16_Witness ==
    /\ op = "on_state_change"
    /\ mismatch_seen # {}
    /\ Len(entities) = 1
    /\ attr_entities = entities
    /\ is_group

\* C17: with the registry left as it is, recomputations converge: one that
\* finds an available member of another unit in the list shortens the list,
\* and one that finds none leaves the list as it is and gives the rounded
\* sum of the available members of the group's unit.
C17_RecomputationsConverge ==
    [][op' = "on_state_change" =>
          IF \E m \in ToSet(entities) : IsMismatch(m)
          THEN Len(entities') < Len(entities)
          ELSE /\ entities' = entities
               /\ ~raised'
               /\ native_value' =
                     DecValue(Round(SumOver({m \in ToSet(entities) : IsEligible(m)}),
                                    rounding_digits))]_vars

\* C18: a recomputation is all-or-nothing: it either completes, with the
\* value set and its write scheduled, or fails and leaves the member list,
\* the entities attribute and the value as they were before the event.
C18_RecomputationIsAllOrNothing ==
    [][op' = "on_state_change" =>
          IF raised'
          THEN /\ entities' = entities
               /\ attr_entities' = attr_entities
               /\ native_value' = native_value
          ELSE /\ native_value'.t = "dec"
               /\ pending_updates' = pending_updates + 1]_vars

\* C19: a reset changes last_reset and queues the member calls, and leaves the
\* value and the member list as they are, so the value written with the new
\* last_reset is the value from before the reset; a recomputation leaves
\* last_reset as it is; neither changes the unit or the precision.
C19_ResetAndRecomputationFrames ==
    [][/\ op' = "reset_energy" =>
             /\ last_reset' # last_reset
             /\ native_value' = native_value
             /\ entities' = entities
             /\ attr_entities' = attr_entities
             /\ pending_updates' = pending_updates
             /\ pub' = HaState(native_value, last_reset')
             /\ \A m \in DOMAIN tasks : tasks'[m] >= tasks[m]
       /\ op' = "on_state_change" =>
             /\ last_reset' = last_reset
             /\ tasks' = tasks
       /\ op' \in {"reset_energy", "on_state_change"} =>
             /\ unit' = unit
             /\ rounding_digits' = rounding_digits]_vars

\* C19 witness: a reset of a group whose value is a computed sum above zero;
\* the value is still that sum, written with the new last_reset.
C19_Witness ==
    /\ op = "reset_energy"
    /\ recomputed
    /\ native_value.t = "dec" /\ native_value.n > 0
    /\ pub.state = native_value
    /\ pub.last_reset = last_reset
    /\ last_reset > 0
    /\ \E m \in DOMAIN tasks : tasks[m] > 0

====
